---- MODULE Spec2Model ----
(***************************************************************************)
(* The access-control and lifecycle state machine of the SecureShare       *)
(* backend (src/secure_share_backend/main.py): upload_content,             *)
(* access_content, stream_content and terminate_content over the tables    *)
(* of models.py (content, pins, access_sessions,                           *)
(* destruction_certificates) and the uploads directory.                    *)
(*                                                                         *)
(* The handlers hold no row lock and the store is shared by every server   *)
(* worker (DATABASE_URL), so a request is modelled as the sequence of its  *)
(* database round trips: each query reads the committed tables, the ORM    *)
(* keeps the rows it loaded for the rest of the request, and commit writes *)
(* the attributes the handler changed. A handler that is never interrupted *)
(* (one worker, whose `async def` bodies contain no await) is the special  *)
(* case in which a request's steps follow each other directly.             *)
(*                                                                         *)
(* Timestamps that no condition of the code reads (created_at, started_at, *)
(* last_activity) and the opaque columns (iv, key hash, file metadata) are *)
(* not part of the state.                                                  *)
(***************************************************************************)
EXTENDS Integers, Sequences, FiniteSets, TLC

(* ------------------------------ bounds -------------------------------- *)
\* the clock runs 0..MaxTime
MaxTime == 2
\* granted accesses per item
MaxGrants == 3
\* views per session
MaxViews == 2
\* completed terminate_content requests per item
MaxTerminations == 2
\* suspicious-activity reports per item
MaxReports == 3

(* ------------------------- program constants -------------------------- *)
MAX_PIN_ATTEMPTS == 3
PIN_LOCKOUT_MINUTES == 15
\* a NULL DateTime column (expires_at, locked_until), and duration_minutes = None
NoTime == -1

(* ------------------------------ inputs -------------------------------- *)
Digits == {"0", "1", "2", "3", "4", "5", "6", "7", "8", "9"}
\* PINs a client may send: two well-formed ones and two malformed ones
Pin1 == <<"1", "1", "1", "1">>
Pin2 == <<"2", "2", "2", "2">>
PinShort == <<"1", "1", "1">>
PinAlpha == <<"1", "1", "1", "a">>
UploadPins == {Pin1, PinShort, PinAlpha}
AccessPins == {Pin1, Pin2}
Fingerprints == {"d1", "d2"}
AccessModes == {"time_based", "one_time"}
ContentTypes == {"text", "exe"}
DeviceLimits == {1, 2}
Durations == {NoTime, 0, 1}
\* uuid4 content ids, in the order of upload, and one id that was never issued
ContentIds == {1}
UnknownId == 0
\* server workers sharing the database
Workers == {1, 2}
\* a session token no session holds
UnknownToken == 0

VARIABLES
    content,        \* table content: id -> row
    pins,           \* table pins: id -> row (the row of the k-th upload has id k)
    sessions,       \* table access_sessions: a set of rows
    certificates,   \* table destruction_certificates: a set of rows
    files,          \* uploads directory: ids of the items whose blob is stored
    now,            \* datetime.utcnow()
    reqs,           \* worker -> the request it is serving, or Idle
    resp,           \* the response the last step sent, NoResp if it sent none
    grants,         \* id -> number of access_granted responses for the item
    terminations,   \* id -> number of "Content terminated" responses for the item
    failed_streak,  \* id -> failed PIN attempts since the credential last verified
    reports         \* id -> the times at which clients reported suspicious activity for the item

vars == <<content, pins, sessions, certificates, files, now, reqs, resp, grants, terminations, failed_streak, reports>>

(* --------------------------- security.py ------------------------------ *)
\* pbkdf2_hmac('sha256', pin, salt, 100000): a function of pin and salt,
\* taken to be collision free
Pbkdf2(pin, salt) == <<"pbkdf2", pin, salt>>

\* hash_pin: "salt:hash"; the salt is fresh per call
hash_pin(pin, salt) == [salt |-> salt, hash |-> Pbkdf2(pin, salt)]

verify_pin(pin, hashed_pin) == Pbkdf2(pin, hashed_pin.salt) = hashed_pin.hash

(* ---------------------------- models.py ------------------------------- *)
\* the lock test with the comparison turned round
LockedAfterUntil(p) == IF p.locked_until # NoTime THEN now > p.locked_until ELSE FALSE

\* PIN.is_locked
is_locked(p) == IF p.locked_until # NoTime THEN now < p.locked_until ELSE FALSE

(* ----------------------------- helpers -------------------------------- *)
Idle == [op |-> "idle"]

\* what the model keeps of a response: the handler, the status code and detail,
\* the item, the device, the session token returned, whether the device had a
\* session already, the utcnow() the handler read (NoTime if it read none) and
\* the PIN the request presented
Response(op, code, detail, cid, fp, token, existing, at) ==
    [op |-> op, code |-> code, detail |-> detail, cid |-> cid, fp |-> fp, token |-> token, existing |-> existing, at |-> at, pin |-> <<>>]

\* the response to an access request, which presented a PIN
AccessResponse(pin, code, detail, cid, fp, token, existing, at) ==
    [Response("access", code, detail, cid, fp, token, existing, at) EXCEPT !.pin = pin]

\* the response to an upload request, with the duration_minutes its form supplied
UploadResponse(duration_minutes, code, detail, cid) ==
    [op |-> "upload", code |-> code, detail |-> detail, cid |-> cid, fp |-> "", token |-> UnknownToken, existing |-> FALSE, at |-> NoTime, pin |-> <<>>, duration_minutes |-> duration_minutes]

NoResp == Response("none", 0, "", UnknownId, "", UnknownToken, FALSE, NoTime)

\* f"Content is {content.status}"
ContentIs(status) ==
    CASE status = "expired" -> "Content is expired"
      [] status = "viewed" -> "Content is viewed"
      [] status = "terminated" -> "Content is terminated"
      [] OTHER -> "Content is active"

\* a request is handed to the first free worker
FreeWorker(w) == reqs[w] = Idle /\ \A v \in Workers : v < w => reqs[v] # Idle

Max(S) == CHOOSE x \in S : \A y \in S : y <= x

Min2(a, b) == IF a <= b THEN a ELSE b

Init ==
    /\ content = <<>>
    /\ pins = <<>>
    /\ sessions = {}
    /\ certificates = {}
    /\ files = {}
    /\ now = 0
    /\ reqs = [w \in Workers |-> Idle]
    /\ resp = NoResp
    /\ grants = <<>>
    /\ terminations = <<>>
    /\ failed_streak = <<>>
    /\ reports = <<>>

\* time passes
Tick ==
    /\ now < MaxTime
    /\ now' = now + 1
    /\ resp' = NoResp
    /\ UNCHANGED <<content, pins, sessions, certificates, files, reqs, grants, terminations, failed_streak, reports>>

(* ------------------------- upload_content ----------------------------- *)
\* len(pin) == 4 and pin.isdigit()
ValidPin(pin) == Len(pin) = 4 /\ \A i \in 1..Len(pin) : pin[i] \in Digits

\* ContentUtils.validate_content_type
validate_content_type(content_type) ==
    content_type \in {"text", "image", "pdf", "video", "audio", "document"}

\* the expiry computed for every access mode
ExpiresAtAnyMode(access_mode, duration_minutes) ==
    IF duration_minutes # NoTime /\ duration_minutes # 0
    THEN now + duration_minutes
    ELSE NoTime

\* expires_at is set if access_mode == "time_based" and duration_minutes
ExpiresAt(access_mode, duration_minutes) ==
    IF access_mode = "time_based" /\ duration_minutes # NoTime /\ duration_minutes # 0
    THEN now + duration_minutes
    ELSE NoTime

NewContent(access_mode, device_limit, duration_minutes, require_biometric, auto_terminate) ==
    [access_mode |-> access_mode,
     expires_at |-> ExpiresAt(access_mode, duration_minutes),
     max_devices |-> device_limit,
     current_devices |-> 0,
     require_biometric |-> require_biometric,
     auto_terminate |-> auto_terminate,
     status |-> "active",
     views_count |-> 0]

\* the PIN row keyed to the id before the item's own
NewPinOffByOne(id, pin) ==
    [content_id |-> id - 1,
     pin_hash |-> hash_pin(pin, id),
     is_active |-> TRUE,
     failed_attempts |-> 0,
     locked_until |-> NoTime]

NewPin(id, pin) ==
    [content_id |-> id,
     pin_hash |-> hash_pin(pin, id),
     is_active |-> TRUE,
     failed_attempts |-> 0,
     locked_until |-> NoTime]

\* the whole handler: the validation, the file, and the one commit of both rows
upload_content(pin, content_type, access_mode, device_limit, duration_minutes, require_biometric, auto_terminate) ==
    LET id == Len(content) + 1 IN
    /\ IF ~ValidPin(pin)
       THEN /\ resp' = UploadResponse(duration_minutes, 400, "PIN must be 4 digits", UnknownId)
            /\ UNCHANGED <<content, pins, files, grants, terminations, failed_streak, reports>>
       ELSE IF ~validate_content_type(content_type)
       THEN /\ resp' = UploadResponse(duration_minutes, 400, "Invalid content type", UnknownId)
            /\ UNCHANGED <<content, pins, files, grants, terminations, failed_streak, reports>>
       ELSE /\ files' = files \cup {id}
            /\ content' = Append(content, NewContent(access_mode, device_limit, duration_minutes, require_biometric, auto_terminate))
            /\ pins' = Append(pins, NewPin(id, pin))
            /\ grants' = Append(grants, 0)
            /\ terminations' = Append(terminations, 0)
            /\ failed_streak' = Append(failed_streak, 0)
            /\ reports' = Append(reports, <<>>)
            /\ resp' = UploadResponse(duration_minutes, 200, "Content uploaded", id)
    /\ UNCHANGED <<sessions, certificates, now, reqs>>

\* an upload request with its form fields drawn from the given sets
UploadFrom(Ps, Ts, Ls, Bs, As) ==
    /\ Len(content) < Cardinality(ContentIds)
    /\ \E pin \in Ps, content_type \in Ts, access_mode \in AccessModes,
          device_limit \in Ls, duration_minutes \in Durations, require_biometric \in Bs, auto_terminate \in As :
            upload_content(pin, content_type, access_mode, device_limit, duration_minutes, require_biometric, auto_terminate)

\* auto_terminate is left at the form's default, True: no handler reads it
Upload == UploadFrom(UploadPins, ContentTypes, DeviceLimits, BOOLEAN, {TRUE})

(* ------------------------- access_content ----------------------------- *)
\* the scan without the is_active test
MatchingHashes(pin) == {k \in 1..Len(pins) : verify_pin(pin, pins[k].pin_hash)}

\* the PIN rows the scan of all_pins can stop at: the hash verifies and the row is active
MatchingPins(pin) == {k \in 1..Len(pins) : verify_pin(pin, pins[k].pin_hash) /\ pins[k].is_active}

\* a failed attempt counts against every credential in use; a verified PIN ends the streak
StreakAfterFailure == [k \in 1..Len(pins) |-> IF pins[k].is_active THEN Min2(failed_streak[k] + 1, MAX_PIN_ATTEMPTS) ELSE failed_streak[k]]

\* lines 211-232: the query of all PIN rows, the scan for a match, the lock check
AccessStart(w, pin, fp, bio) ==
    /\ FreeWorker(w)
    /\ IF MatchingPins(pin) = {}
       THEN /\ resp' = AccessResponse(pin, 404, "PIN not found", UnknownId, fp, UnknownToken, FALSE, NoTime)
            /\ failed_streak' = StreakAfterFailure
            /\ UNCHANGED reqs
       ELSE \E k \in MatchingPins(pin) :
            /\ failed_streak' = [failed_streak EXCEPT ![k] = 0]
            /\ IF is_locked(pins[k])
               THEN /\ resp' = AccessResponse(pin, 423, "PIN locked due to too many attempts", pins[k].content_id, fp, UnknownToken, FALSE, NoTime)
                    /\ UNCHANGED reqs
               ELSE /\ reqs' = [reqs EXCEPT ![w] = [op |-> "access", pc |-> "content", pin |-> pin, pin_id |-> k, cid |-> pins[k].content_id, fp |-> fp, bio |-> bio]]
                    /\ resp' = NoResp
    /\ UNCHANGED <<content, pins, sessions, certificates, files, now, grants, terminations, reports>>

\* the expiry test with the boundary instant counted as expired
ExpiredAtBoundary(row, t) == row.expires_at # NoTime /\ t >= row.expires_at

\* now > content.expires_at
Expired(row, t) == row.expires_at # NoTime /\ t > row.expires_at

\* content.access_mode == "one_time" and content.views_count > 0
AlreadyViewed(row) == row.access_mode = "one_time" /\ row.views_count > 0

\* lines 234-259: the query of the content row, the status check, and the two
\* lazy transitions, whose commit is the request's next round trip
AccessContent(w) ==
    LET r == reqs[w]
        row == content[r.cid]
        at == IF row.expires_at # NoTime THEN now ELSE NoTime IN
    /\ r.op = "access" /\ r.pc = "content"
    /\ IF row.status # "active"
       THEN /\ resp' = AccessResponse(r.pin, 410, ContentIs(row.status), r.cid, r.fp, UnknownToken, FALSE, NoTime)
            /\ reqs' = [reqs EXCEPT ![w] = Idle]
       ELSE IF AlreadyViewed(row)
       THEN /\ reqs' = [reqs EXCEPT ![w] = [op |-> "access", pc |-> "commit_status", pin |-> r.pin, cid |-> r.cid, fp |-> r.fp, status |-> "viewed", at |-> NoTime]]
            /\ resp' = NoResp
       ELSE IF Expired(row, now)
       THEN /\ reqs' = [reqs EXCEPT ![w] = [op |-> "access", pc |-> "commit_status", pin |-> r.pin, cid |-> r.cid, fp |-> r.fp, status |-> "expired", at |-> now]]
            /\ resp' = NoResp
       ELSE /\ reqs' = [reqs EXCEPT ![w] = [op |-> "access", pc |-> "session", pin |-> r.pin, pin_id |-> r.pin_id, cid |-> r.cid, fp |-> r.fp, bio |-> r.bio, at |-> at,
                                            views_count |-> row.views_count, current_devices |-> row.current_devices,
                                            max_devices |-> row.max_devices, require_biometric |-> row.require_biometric]]
            /\ resp' = NoResp
    /\ UNCHANGED <<content, pins, sessions, certificates, files, now, grants, terminations, failed_streak, reports>>

\* the lazy transition counted as a view
StatusAndView(row, status) == [row EXCEPT !.status = status, !.views_count = @ + 1]

\* content.status = "viewed" (line 245) or "expired" (line 253): the one column
\* the request assigned
StatusSet(row, status) == [row EXCEPT !.status = status]

\* lines 245-247 and 253-255: content.status = ...; db.commit(); raise 410
AccessCommitStatus(w) ==
    LET r == reqs[w] IN
    /\ r.op = "access" /\ r.pc = "commit_status"
    /\ content' = [content EXCEPT ![r.cid] = StatusSet(@, r.status)]
    /\ resp' = AccessResponse(r.pin, 410, IF r.status = "viewed" THEN "Content already viewed (one-time view)" ELSE "Content expired", r.cid, r.fp, UnknownToken, FALSE, r.at)
    /\ reqs' = [reqs EXCEPT ![w] = Idle]
    /\ UNCHANGED <<pins, sessions, certificates, files, now, grants, terminations, failed_streak, reports>>

\* the active sessions of the device for the item (the query of lines 265-269)
ExistingSessions(cid, fp) == {s \in sessions : s.content_id = cid /\ s.device_fingerprint = fp /\ s.is_active}

\* the device limit applied to every device, known or new
DeviceLimitForAll(existing, current_devices, max_devices) == current_devices >= max_devices

\* the device limit with the last slot counted as free
DeviceLimitOffByOne(existing, current_devices, max_devices) == ~existing /\ current_devices > max_devices

\* not existing_session and content.current_devices >= content.max_devices
DeviceLimitReached(existing, current_devices, max_devices) == ~existing /\ current_devices >= max_devices

\* the biometric test with the flag read the wrong way round
BiometricInverted(require_biometric, bio) == require_biometric /\ bio

\* content.require_biometric and not device_info.get("biometric_verified", False)
BiometricMissing(require_biometric, bio) == require_biometric /\ ~bio

\* secrets.token_urlsafe(32): a token no session and no request holds
FreshToken == 1 + Max({0} \cup {s.session_token : s \in sessions} \cup {reqs[v].token : v \in {u \in Workers : reqs[u].op = "access" /\ reqs[u].pc = "commit"}})

NewSession(cid, fp, token, view_count) ==
    [content_id |-> cid, device_fingerprint |-> fp, session_token |-> token, view_count |-> view_count, is_active |-> TRUE]

\* a request that raises without having committed leaves its pending changes
\* in the session, and the flushed form keeps them
Flushed(committed, pending) == pending

\* the HTTPException leaves the handler before db.commit(): the session is
\* dropped with the request and its pending changes are not written
Discarded(committed, pending) == committed

\* lines 261-308: the session query, the device limit, the new or the existing
\* session, the biometric check and the counters, all on the rows the request
\* holds; a request that raises here commits nothing
AccessSession(w) ==
    LET r == reqs[w]
        found == ExistingSessions(r.cid, r.fp) IN
    /\ r.op = "access" /\ r.pc = "session"
    /\ IF DeviceLimitReached(found # {}, r.current_devices, r.max_devices)
       THEN /\ resp' = AccessResponse(r.pin, 403, "Device limit reached", r.cid, r.fp, UnknownToken, found # {}, r.at)
            /\ reqs' = [reqs EXCEPT ![w] = Idle]
            /\ UNCHANGED <<content, sessions>>
       ELSE IF BiometricMissing(r.require_biometric, r.bio)
       THEN /\ resp' = AccessResponse(r.pin, 403, "Biometric verification required", r.cid, r.fp, UnknownToken, found # {}, r.at)
            /\ reqs' = [reqs EXCEPT ![w] = Idle]
            /\ sessions' = Discarded(sessions, IF found = {} THEN sessions \cup {NewSession(r.cid, r.fp, FreshToken, 0)} ELSE sessions)
            /\ content' = Discarded(content, IF found = {} THEN [content EXCEPT ![r.cid].current_devices = r.current_devices + 1] ELSE content)
       ELSE /\ grants[r.cid] < MaxGrants
            /\ resp' = NoResp
            /\ UNCHANGED <<content, sessions>>
            /\ IF found = {}
               THEN reqs' = [reqs EXCEPT ![w] = [op |-> "access", pc |-> "commit", pin |-> r.pin, pin_id |-> r.pin_id, cid |-> r.cid, fp |-> r.fp, bio |-> r.bio, at |-> r.at,
                                                 existing |-> FALSE, token |-> FreshToken, view_count |-> 1,
                                                 views_count |-> r.views_count + 1, current_devices |-> r.current_devices + 1]]
               ELSE \E s \in found :
                    /\ s.view_count < MaxViews
                    /\ reqs' = [reqs EXCEPT ![w] = [op |-> "access", pc |-> "commit", pin |-> r.pin, pin_id |-> r.pin_id, cid |-> r.cid, fp |-> r.fp, bio |-> r.bio, at |-> r.at,
                                                 existing |-> TRUE, token |-> s.session_token, view_count |-> s.view_count + 1,
                                                 views_count |-> r.views_count + 1, current_devices |-> r.current_devices]]
    /\ UNCHANGED <<pins, certificates, files, now, grants, terminations, failed_streak, reports>>

\* the UPDATE without its WHERE clause
SetViewCountAll(token, view_count) == {[s EXCEPT !.view_count = view_count] : s \in sessions}

\* UPDATE access_sessions SET view_count = ... WHERE the row is the one loaded
SetViewCount(token, view_count) == {IF s.session_token = token THEN [s EXCEPT !.view_count = view_count] ELSE s : s \in sessions}

\* the commit with the session's view_count written to the item's views_count
CommittedSessionCount(row, r) == [row EXCEPT !.views_count = r.view_count, !.current_devices = IF r.existing THEN @ ELSE r.current_devices]

\* UPDATE content SET views_count = ..., and current_devices = ... when the
\* request counted a new device: the columns the request assigned, with the
\* values it computed from the row it loaded
\* the commit with the device counter left out
CommittedViewsOnly(row, r) == [row EXCEPT !.views_count = r.views_count]

CommittedRow(row, r) == [row EXCEPT !.views_count = r.views_count, !.current_devices = IF r.existing THEN @ ELSE r.current_devices]

\* lines 310-370: db.commit() writes the attributes the request changed, and
\* the response grants access
AccessCommit(w) ==
    LET r == reqs[w] IN
    /\ r.op = "access" /\ r.pc = "commit"
    /\ content' = [content EXCEPT ![r.cid] = CommittedRow(@, r)]
    /\ sessions' = IF r.existing THEN SetViewCount(r.token, r.view_count) ELSE sessions \cup {NewSession(r.cid, r.fp, r.token, r.view_count)}
    /\ pins' = [pins EXCEPT ![r.pin_id].failed_attempts = 0, ![r.pin_id].locked_until = NoTime]
    /\ grants' = [grants EXCEPT ![r.cid] = @ + 1]
    /\ resp' = AccessResponse(r.pin, 200, "access_granted", r.cid, r.fp, r.token, r.existing, r.at)
    /\ reqs' = [reqs EXCEPT ![w] = Idle]
    /\ UNCHANGED <<certificates, files, now, terminations, failed_streak, reports>>

(* ------------------------- stream_content ----------------------------- *)
\* the handler's `except Exception` catches its own HTTPExceptions too: every
\* failure leaves as 500, with the cause in the detail
StreamFailed(cause, detail, cid, token, at) == Response("stream", 500, detail, cid, "", token, FALSE, at)

\* the session query without the content_id filter
StreamSessionsAnyItem(cid, token) == {s \in sessions : s.session_token = token /\ s.is_active}

\* the query of lines 389-393
StreamSessions(cid, token) == {s \in sessions : s.content_id = cid /\ s.session_token = token /\ s.is_active}

\* lines 387-396: the session query
StreamStart(w, cid, token) ==
    /\ FreeWorker(w)
    /\ IF StreamSessions(cid, token) = {}
       THEN /\ resp' = StreamFailed(401, "Invalid or expired session", cid, token, NoTime)
            /\ UNCHANGED reqs
       ELSE \E s \in StreamSessions(cid, token) :
            /\ reqs' = [reqs EXCEPT ![w] = [op |-> "stream", pc |-> "content", cid |-> cid, token |-> token, view_count |-> s.view_count]]
            /\ resp' = NoResp
    /\ UNCHANGED <<content, pins, sessions, certificates, files, now, grants, terminations, failed_streak, reports>>

\* content.status != "active"
NotAccessible(row) == row.status # "active"

\* lines 398-408: the query of the content row, the status check, and the
\* session's counters on the row the request holds
StreamContent(w) ==
    LET r == reqs[w] IN
    /\ r.op = "stream" /\ r.pc = "content"
    /\ IF r.cid \notin DOMAIN content
       THEN /\ resp' = StreamFailed(404, "Content not found", r.cid, r.token, NoTime)
            /\ reqs' = [reqs EXCEPT ![w] = Idle]
       ELSE IF NotAccessible(content[r.cid])
       THEN /\ resp' = StreamFailed(410, ContentIs(content[r.cid].status), r.cid, r.token, NoTime)
            /\ reqs' = [reqs EXCEPT ![w] = Idle]
       ELSE /\ r.view_count < MaxViews
            /\ reqs' = [reqs EXCEPT ![w] = [op |-> "stream", pc |-> "commit", cid |-> r.cid, token |-> r.token, view_count |-> r.view_count + 1, at |-> now]]
            /\ resp' = NoResp
    /\ UNCHANGED <<content, pins, sessions, certificates, files, now, grants, terminations, failed_streak, reports>>

\* lines 409-434: db.commit(), then the file is looked up and sent
StreamCommit(w) ==
    LET r == reqs[w] IN
    /\ r.op = "stream" /\ r.pc = "commit"
    /\ sessions' = SetViewCount(r.token, r.view_count)
    /\ resp' = IF r.cid \in files
               THEN Response("stream", 200, "FileResponse", r.cid, "", r.token, FALSE, r.at)
               ELSE StreamFailed(404, "File not found", r.cid, r.token, r.at)
    /\ reqs' = [reqs EXCEPT ![w] = Idle]
    /\ UNCHANGED <<content, pins, certificates, files, now, grants, terminations, failed_streak, reports>>

(* ------------------------ terminate_content --------------------------- *)
\* lines 447-456: the queries of the content row and of its PIN row
TerminateStart(w, cid) ==
    /\ FreeWorker(w)
    /\ IF cid \notin DOMAIN content
       THEN /\ resp' = Response("terminate", 404, "Content not found", cid, "", UnknownToken, FALSE, NoTime)
            /\ UNCHANGED reqs
       ELSE /\ terminations[cid] < MaxTerminations
            /\ reqs' = [reqs EXCEPT ![w] = [op |-> "terminate", pc |-> "commit", cid |-> cid, status |-> content[cid].status]]
            /\ resp' = NoResp
    /\ UNCHANGED <<content, pins, sessions, certificates, files, now, grants, terminations, failed_streak, reports>>

\* a termination that leaves the status column alone
StatusKept(row, loaded_status) == row

\* content.status = "terminated": an UPDATE unless the row was loaded terminated
TerminatedRow(row, loaded_status) == IF loaded_status # "terminated" THEN [row EXCEPT !.status = "terminated"] ELSE row

\* pin.is_active = False, on the PIN row of the item
DeactivatedPins(cid) == [k \in 1..Len(pins) |-> IF pins[k].content_id = cid THEN [pins[k] EXCEPT !.is_active = FALSE] ELSE pins[k]]

\* line 458: db.commit()
TerminateCommit(w) ==
    LET r == reqs[w] IN
    /\ r.op = "terminate" /\ r.pc = "commit"
    /\ content' = [content EXCEPT ![r.cid] = TerminatedRow(@, r.status)]
    /\ pins' = DeactivatedPins(r.cid)
    /\ reqs' = [reqs EXCEPT ![w] = [op |-> "terminate", pc |-> "unlink", cid |-> r.cid]]
    /\ resp' = NoResp
    /\ UNCHANGED <<sessions, certificates, files, now, grants, terminations, failed_streak, reports>>

\* lines 460-471: the file is deleted and the request answered
TerminateUnlink(w) ==
    LET r == reqs[w] IN
    /\ r.op = "terminate" /\ r.pc = "unlink"
    /\ files' = files \ {r.cid}
    /\ terminations' = [terminations EXCEPT ![r.cid] = @ + 1]
    /\ resp' = Response("terminate", 200, "Content terminated", r.cid, "", UnknownToken, FALSE, NoTime)
    /\ reqs' = [reqs EXCEPT ![w] = Idle]
    /\ UNCHANGED <<content, pins, sessions, certificates, now, grants, failed_streak, reports>>

(* --------------------- suspicious-activity reports -------------------- *)
\* A client reports suspicious activity for an item (SuspiciousActivityReport,
\* schemas.py:59-63). The app declares no route that takes the report (its
\* routes are /, /content/upload, /content/access/{pin},
\* /content/stream/{content_id}, /content/{content_id}/terminate and /debug/*),
\* so the router answers 404 and no handler runs: no row of
\* suspicious_activities is ever written and auto_terminate is never read.
ReportActivity(cid) ==
    /\ cid \in DOMAIN content
    /\ Len(reports[cid]) < MaxReports
    /\ reports' = [reports EXCEPT ![cid] = Append(@, now)]
    /\ resp' = Response("report", 404, "Not Found", cid, "", UnknownToken, FALSE, NoTime)
    /\ UNCHANGED <<content, pins, sessions, certificates, files, now, reqs, grants, terminations, failed_streak>>

(* ------------------------- specifications ----------------------------- *)
\* the session tokens a client can hold, and one nobody was given
Tokens == {s.session_token : s \in sessions} \cup {UnknownToken}

\* a request arrives, an access request with its PIN and its biometric flag
\* drawn from the given sets
StartFrom(w, Ps, Bs) ==
    \/ \E pin \in Ps, fp \in Fingerprints, bio \in Bs : AccessStart(w, pin, fp, bio)
    \/ \E cid \in ContentIds \cup {UnknownId}, token \in Tokens : StreamStart(w, cid, token)
    \/ \E cid \in ContentIds \cup {UnknownId} : TerminateStart(w, cid)

\* the request of worker w makes its next round trip
Step(w) ==
    \/ AccessContent(w)
    \/ AccessCommitStatus(w)
    \/ AccessSession(w)
    \/ AccessCommit(w)
    \/ StreamContent(w)
    \/ StreamCommit(w)
    \/ TerminateCommit(w)
    \/ TerminateUnlink(w)

NoRequest == \A w \in Workers : reqs[w] = Idle

\* one server process (uvicorn.run("main:app"), main.py:532-539): the handlers
\* are `async def` bodies with no await between their first query and their
\* response (upload_content awaits only the file save, before it touches the
\* database), so the event loop runs each request's database work to its
\* response before it takes the next
Next ==
    \/ NoRequest /\ Tick
    \/ NoRequest /\ Upload
    \/ NoRequest /\ \E w \in Workers : StartFrom(w, AccessPins, BOOLEAN)
    \/ \E w \in Workers : Step(w)

Spec == Init /\ [][Next]_vars

\* several server processes on one database (DATABASE_URL): no handler takes
\* a lock, so requests interleave at every round trip. The requests are those
\* of clients that hold the item's PIN, for an item that one device may open
\* and that asks for no biometric check.
NextWorkers ==
    \/ NoRequest /\ Tick
    \/ UploadFrom({Pin1}, {"text"}, {1}, {FALSE}, {TRUE})
    \/ \E w \in Workers : StartFrom(w, {Pin1}, {FALSE})
    \/ \E w \in Workers : Step(w)

SpecWorkers == Init /\ [][NextWorkers]_vars

\* The database file outlives the server process (on_startup only creates
\* missing tables), so the handlers also run on a store they did not fill.
\* This specification starts the server on a store that holds one active item
\* whose credential row may carry a lock: pins.locked_until and
\* pins.failed_attempts are drawn from the values the columns can hold.
LockTimes == {NoTime} \cup 1..MaxTime

StoredPin(locked_until, failed_attempts) == [NewPin(1, Pin1) EXCEPT !.locked_until = locked_until, !.failed_attempts = failed_attempts]

InitLocked ==
    /\ now = 0
    /\ \E access_mode \in AccessModes, duration_minutes \in Durations :
          content = <<NewContent(access_mode, 1, duration_minutes, FALSE, TRUE)>>
    /\ \E locked_until \in LockTimes, failed_attempts \in {0, MAX_PIN_ATTEMPTS} :
          pins = <<StoredPin(locked_until, failed_attempts)>>
    /\ sessions = {}
    /\ certificates = {}
    /\ files = {1}
    /\ reqs = [w \in Workers |-> Idle]
    /\ resp = NoResp
    /\ grants = <<0>>
    /\ terminations = <<0>>
    /\ failed_streak = <<0>>
    /\ reports = <<<<>>>>

NextLocked ==
    \/ NoRequest /\ Tick
    \/ NoRequest /\ \E w \in Workers : StartFrom(w, AccessPins, {FALSE})
    \/ \E w \in Workers : Step(w)

SpecLocked == InitLocked /\ [][NextLocked]_vars

\* the server with clients that upload items, with auto_terminate set or not,
\* and report suspicious activity for them
NextReports ==
    \/ NoRequest /\ Tick
    \/ UploadFrom({Pin1}, {"text"}, {1}, {FALSE}, BOOLEAN)
    \/ \E cid \in ContentIds : ReportActivity(cid)

SpecReports == Init /\ [][NextReports]_vars

\* the server holding two items, each with its own PIN and open to one device:
\* requests for one item meet the rows and the session tokens of the other
TwoIds == {1, 2}

UploadNext ==
    /\ Len(content) < Cardinality(TwoIds)
    /\ \E access_mode \in AccessModes :
          upload_content(IF Len(content) = 0 THEN Pin1 ELSE Pin2, "text", access_mode, 1, NoTime, FALSE, TRUE)

NextTwo ==
    \/ NoRequest /\ UploadNext
    \/ NoRequest /\ \E w \in Workers, pin \in AccessPins : AccessStart(w, pin, "d1", FALSE)
    \/ NoRequest /\ \E w \in Workers, cid \in TwoIds, token \in Tokens : StreamStart(w, cid, token)
    \/ NoRequest /\ \E w \in Workers, cid \in TwoIds : TerminateStart(w, cid)
    \/ \E w \in Workers : Step(w)

SpecTwo == Init /\ [][NextTwo]_vars

\* the server with two uploaders who chose the same 4-digit PIN: upload_content
\* checks the PIN's form only (lines 95-97) and never looks for the PIN among
\* the stored credentials
UploadSamePin ==
    /\ Len(content) < Cardinality(TwoIds)
    /\ \E access_mode \in AccessModes :
          upload_content(Pin1, "text", access_mode, 1, NoTime, FALSE, TRUE)

NextSamePin ==
    \/ NoRequest /\ UploadSamePin
    \/ NoRequest /\ \E w \in Workers, pin \in AccessPins : AccessStart(w, pin, "d1", FALSE)
    \/ NoRequest /\ \E w \in Workers, cid \in TwoIds, token \in Tokens : StreamStart(w, cid, token)
    \/ NoRequest /\ \E w \in Workers, cid \in TwoIds : TerminateStart(w, cid)
    \/ \E w \in Workers : Step(w)

SpecSamePin == Init /\ [][NextSamePin]_vars

\* the server with clients whose upload forms carry any access_mode string and
\* any device_limit integer (access_mode: str = Form(...), device_limit: int =
\* Form(1)), and that then use the item
AnyAccessModes == AccessModes \cup {"weekly"}

AnyDeviceLimits == {-1, 0, 1}

NextUploads ==
    \/ NoRequest /\ Tick
    \/ /\ NoRequest
       /\ Len(content) < Cardinality(ContentIds)
       /\ \E pin \in UploadPins, content_type \in ContentTypes, access_mode \in AnyAccessModes, device_limit \in AnyDeviceLimits, duration_minutes \in Durations :
             upload_content(pin, content_type, access_mode, device_limit, duration_minutes, FALSE, TRUE)
    \/ NoRequest /\ \E w \in Workers : StartFrom(w, {Pin1}, {FALSE})
    \/ \E w \in Workers : Step(w)

SpecUploads == Init /\ [][NextUploads]_vars

(* ------------------------------ claims -------------------------------- *)
\* the devices that hold an active session of an item
Admitted(c) == {s.device_fingerprint : s \in {x \in sessions : x.content_id = c /\ x.is_active}}

\* the certificates of an item
CertificatesOf(c) == {x \in certificates : x.content_id = c}

\* C1: a one_time item is granted to at most one access request, whatever the
\* interleaving of the requests, and once it was granted every other access
\* request for it is answered 410 Gone.
C1_OneTimeGrantedOnce ==
    \A c \in DOMAIN content :
        content[c].access_mode = "one_time" =>
            /\ grants[c] <= 1
            /\ (resp.op = "access" /\ resp.cid = c /\ grants[c] >= 1) => resp.code \in {200, 410}

\* C2: in every committed state current_devices <= max_devices, and no more
\* devices than max_devices hold a session of the item: two devices racing for
\* the last slot are never both admitted.
C2_DeviceQuota ==
    \A c \in DOMAIN content :
        /\ content[c].current_devices <= content[c].max_devices
        /\ Cardinality(Admitted(c)) <= content[c].max_devices

\* C3: after MAX_PIN_ATTEMPTS consecutive failed PIN attempts against a
\* credential, failed_attempts has counted them and the credential is locked
\* for PIN_LOCKOUT_MINUTES, so that no attempt verifies before locked_until.
C3_LockedAfterMaxAttempts ==
    \A k \in 1..Len(pins) :
        (pins[k].is_active /\ failed_streak[k] >= MAX_PIN_ATTEMPTS) =>
            /\ pins[k].failed_attempts >= MAX_PIN_ATTEMPTS
            /\ is_locked(pins[k])
            /\ pins[k].locked_until <= now + PIN_LOCKOUT_MINUTES

\* C4: terminate_content invoked twice on one content id leaves exactly one
\* DestructionCertificate for the id, and only the first invocation reports
\* "Content terminated": the second reports 404.
C4_TerminateOnce ==
    \A c \in DOMAIN content :
        terminations[c] >= 1 =>
            /\ Cardinality(CertificatesOf(c)) = 1
            /\ terminations[c] = 1

\* C5: an access request with the correct PIN for an item with expires_at set
\* is not rejected as expired while now <= expires_at and leaves the item
\* active; the request that reads a clock past expires_at is answered 410
\* "Content expired" and leaves status = expired, and from then on every access
\* with the PIN is answered 410. No sweep is involved: only requests act.
C5_LazyExpiry ==
    (resp.op = "access" /\ resp.cid \in DOMAIN content /\ content[resp.cid].expires_at # NoTime) =>
        /\ resp.at # NoTime =>
              IF resp.at > content[resp.cid].expires_at
              THEN resp.code = 410 /\ resp.detail = "Content expired" /\ content[resp.cid].status = "expired"
              ELSE resp.code # 410 /\ content[resp.cid].status = "active"
        /\ now > content[resp.cid].expires_at => resp.code = 410 /\ content[resp.cid].status # "active"

\* the first access after expires_at was refused and flipped the status
C5_Witness ==
    /\ resp.op = "access" /\ resp.code = 410 /\ resp.detail = "Content expired"
    /\ resp.at > content[resp.cid].expires_at
    /\ content[resp.cid].status = "expired"

\* C6: once now > expires_at neither access_content nor stream_content returns
\* the item's content, whether or not a request has flipped the status yet.
C6_NoReleaseAfterExpiry ==
    (resp.code = 200 /\ resp.op \in {"access", "stream"} /\ content[resp.cid].expires_at # NoTime) =>
        now <= content[resp.cid].expires_at

\* C7: a device that holds an active session of the item is not stopped by the
\* device limit: its access request is never answered "Device limit reached",
\* it is granted once the biometric check passes, and it leaves current_devices
\* unchanged, also when other devices have filled the quota.
C7_RepeatDevice ==
    [][\A w \in Workers :
        LET r == reqs[w] IN
        (r.op = "access" /\ r.pc \in {"session", "commit"} /\ ExistingSessions(r.cid, r.fp) # {} /\ reqs'[w] # r) =>
            /\ resp'.detail # "Device limit reached"
            /\ content'[r.cid].current_devices = content[r.cid].current_devices
            /\ (r.pc = "session" /\ ~BiometricMissing(r.require_biometric, r.bio)) => (reqs'[w].op = "access" /\ reqs'[w].pc = "commit")
            /\ r.pc = "commit" => (resp'.code = 200 /\ resp'.existing)]_vars

\* a repeat access was granted while the quota was full and another device
\* held a session
C7_Witness ==
    /\ resp.op = "access" /\ resp.code = 200 /\ resp.existing
    /\ content[resp.cid].current_devices = content[resp.cid].max_devices
    /\ \E s \in sessions : s.content_id = resp.cid /\ s.is_active /\ s.device_fingerprint # resp.fp

\* C8: once an item's status is expired, viewed or terminated no operation
\* changes it.
C8_StatusTerminal ==
    [][\A c \in DOMAIN content : content[c].status # "active" => content'[c].status = content[c].status]_vars

\* the 410 details that name a status
GoneDetails(status) ==
    {ContentIs(status)} \cup (IF status = "expired" THEN {"Content expired"} ELSE {})
                       \cup (IF status = "viewed" THEN {"Content already viewed (one-time view)"} ELSE {})

\* C9: an access request that presents the item's PIN while the item is
\* expired, viewed or terminated is answered 410 with a detail naming that
\* status.
C9_GoneNamesStatus ==
    \A k \in 1..Len(pins) :
        (resp.op = "access" /\ verify_pin(resp.pin, pins[k].pin_hash) /\ content[pins[k].content_id].status # "active") =>
            /\ resp.code = 410
            /\ resp.detail \in GoneDetails(content[pins[k].content_id].status)

\* C10: once terminate_content has completed for an item, the item's status
\* is terminated, its PIN row is inactive, and no access or stream request for
\* the item is granted.
C10_TerminatedIsClosed ==
    \A c \in DOMAIN content :
        terminations[c] >= 1 =>
            /\ content[c].status = "terminated"
            /\ \A k \in 1..Len(pins) : pins[k].content_id = c => ~pins[k].is_active
            /\ ~(resp.code = 200 /\ resp.op \in {"access", "stream"} /\ resp.cid = c)

\* a stream request with a token issued before the termination was refused
C10_Witness ==
    /\ resp.op = "stream" /\ resp.cid \in DOMAIN content
    /\ terminations[resp.cid] >= 1
    /\ resp.token # UnknownToken
    /\ resp.detail = "Content is terminated"

\* C11: an access request whose device_info does not carry biometric_verified
\* = true is never granted for an item with require_biometric set, whether or
\* not the device holds a session and whatever quota is left.
C11_BiometricRequired ==
    [][\A w \in Workers :
        (reqs[w].op = "access" /\ reqs'[w] # reqs[w] /\ resp'.op = "access" /\ resp'.code = 200) =>
            (content[reqs[w].cid].require_biometric => reqs[w].bio)]_vars

\* a device that holds a session was refused for the missing biometric flag
C11_Witness ==
    /\ resp.op = "access" /\ resp.code = 403 /\ resp.detail = "Biometric verification required"
    /\ resp.existing
    /\ content[resp.cid].require_biometric

\* locked_until is in the future
LockedUntilFuture(p) == p.locked_until # NoTime /\ now < p.locked_until

\* C12: is_locked() is true exactly while locked_until is in the future,
\* whatever failed_attempts holds, and while it is, no access request for the
\* credential's item is granted: a request presenting the correct PIN is
\* answered 423 and one presenting a wrong PIN fails as well.
C12_LockedRefusesAll ==
    [][\A k \in 1..Len(pins) :
        /\ is_locked(pins[k]) <=> LockedUntilFuture(pins[k])
        /\ LockedUntilFuture(pins[k]) =>
              /\ ~(resp'.op = "access" /\ resp'.code = 200 /\ resp'.cid = pins[k].content_id)
              /\ (resp'.op = "access" /\ pins[k].is_active /\ verify_pin(resp'.pin, pins[k].pin_hash)) => resp'.code = 423]_vars

\* the correct PIN was refused because the credential is locked
C12_Witness ==
    /\ resp.op = "access" /\ resp.code = 423
    /\ \E k \in 1..Len(pins) :
          /\ verify_pin(resp.pin, pins[k].pin_hash)
          /\ LockedUntilFuture(pins[k])
          /\ pins[k].failed_attempts = 0

\* C13: access_content never selects a credential row with is_active = false:
\* a request whose PIN matches only inactive rows is answered 404 "PIN not
\* found", and every access response that concerns an item was reached
\* through an active row of that item whose hash the PIN verifies.
C13_InactiveNeverSelected ==
    resp.op = "access" =>
        /\ (\A k \in 1..Len(pins) : verify_pin(resp.pin, pins[k].pin_hash) => ~pins[k].is_active) =>
              (resp.code = 404 /\ resp.cid = UnknownId)
        /\ resp.cid # UnknownId =>
              \E k \in 1..Len(pins) : pins[k].content_id = resp.cid /\ pins[k].is_active /\ verify_pin(resp.pin, pins[k].pin_hash)

\* the PIN of a deactivated credential was presented and refused
C13_Witness ==
    /\ resp.op = "access" /\ resp.code = 404
    /\ \E k \in 1..Len(pins) : verify_pin(resp.pin, pins[k].pin_hash) /\ ~pins[k].is_active

\* C14: a transition to expired, viewed or terminated is followed by the
\* item's destruction: once the request that made the transition is answered,
\* the item's PIN row and access sessions are deleted and exactly one
\* DestructionCertificate keyed by the content id is persisted.
C14_TerminalIsDestroyed ==
    NoRequest =>
        \A c \in DOMAIN content :
            content[c].status # "active" =>
                /\ Cardinality(CertificatesOf(c)) = 1
                /\ \A k \in 1..Len(pins) : pins[k].content_id # c
                /\ \A s \in sessions : s.content_id # c

\* the reports for an item within the trailing 5 minutes
RecentReports(c) == {i \in 1..Len(reports[c]) : now - reports[c][i] < 5}

\* C15: with auto_terminate set, an item with fewer than three reports in the
\* trailing 5 minutes is active, and one with three is terminated and has a
\* certificate with reason "suspicious"; without auto_terminate no number of
\* reports changes the status.
C15_AutoTerminate ==
    \A c \in DOMAIN content :
        IF content[c].auto_terminate /\ Cardinality(RecentReports(c)) >= 3
        THEN /\ content[c].status = "terminated"
             /\ \E x \in CertificatesOf(c) : x.reason = "suspicious"
        ELSE content[c].status = "active"

\* C16: stream_content sends an item's file only to a request whose token is
\* the token of an active session of that same item, and only while the
\* item's status is active: a token issued for one item never streams
\* another, and a token no session holds streams nothing.
C16_StreamNeedsOwnSession ==
    (resp.op = "stream" /\ resp.code = 200) =>
        /\ resp.cid \in DOMAIN content
        /\ content[resp.cid].status = "active"
        /\ resp.token # UnknownToken
        /\ \E s \in sessions : s.content_id = resp.cid /\ s.session_token = resp.token /\ s.is_active

\* the token of a session of one item was refused for another, active item
C16_Witness ==
    /\ resp.op = "stream" /\ resp.code = 500 /\ resp.detail = "Invalid or expired session"
    /\ resp.cid \in DOMAIN content
    /\ content[resp.cid].status = "active"
    /\ \E s \in sessions : s.session_token = resp.token /\ s.is_active /\ s.content_id # resp.cid

\* C17: for a one_time item the transition to viewed is part of the granted
\* access: when the grant has been committed and answered, the item's status
\* is viewed.
C17_ViewedOnGrant ==
    (resp.op = "access" /\ resp.code = 200 /\ content[resp.cid].access_mode = "one_time") =>
        content[resp.cid].status = "viewed"

\* C18: an access request from a device with no active session of the item
\* is granted only if current_devices < max_devices, and the grant creates
\* exactly one session, for that device, raises current_devices by exactly 1
\* and returns a token no session held before; with current_devices >=
\* max_devices the request is answered 403 "Device limit reached" and creates
\* no session.
C18_NewDeviceAdmission ==
    [][\A w \in Workers :
        LET r == reqs[w] IN
        (r.op = "access" /\ reqs'[w] = Idle /\ ExistingSessions(r.cid, r.fp) = {}) =>
            /\ resp'.code = 200 =>
                  /\ content[r.cid].current_devices < content[r.cid].max_devices
                  /\ content'[r.cid].current_devices = content[r.cid].current_devices + 1
                  /\ Cardinality(sessions') = Cardinality(sessions) + 1
                  /\ \E s \in sessions' \ sessions :
                        s.content_id = r.cid /\ s.device_fingerprint = r.fp /\ s.is_active /\ s.session_token = resp'.token
                  /\ resp'.token # UnknownToken
                  /\ \A s \in sessions : s.session_token # resp'.token
            /\ (r.pc = "session" /\ content[r.cid].current_devices >= content[r.cid].max_devices) =>
                  /\ resp'.code = 403 /\ resp'.detail = "Device limit reached"
                  /\ sessions' = sessions
                  /\ content' = content]_vars

\* a second device was admitted into the last free slot
C18_Witness ==
    /\ resp.op = "access" /\ resp.code = 200 /\ ~resp.existing
    /\ content[resp.cid].current_devices = 2
    /\ content[resp.cid].max_devices = 2
    /\ Cardinality(Admitted(resp.cid)) = 2

\* C19: there is at most one active AccessSession per (content_id,
\* device_fingerprint), also when the same device issues two access requests
\* concurrently: a repeat access reuses the device's session and its token.
C19_OneSessionPerDevice ==
    /\ \A c \in DOMAIN content, fp \in Fingerprints : Cardinality(ExistingSessions(c, fp)) <= 1
    /\ (resp.op = "access" /\ resp.code = 200 /\ resp.existing) =>
          \E s \in ExistingSessions(resp.cid, resp.fp) : s.session_token = resp.token

\* C20: every granted access raises the item's views_count by exactly 1, so
\* views_count equals the number of granted accesses, also when accesses to
\* the item are granted concurrently; and a grant raises the view_count of
\* the session it admits by exactly 1.
C20_ViewsCountGrants ==
    /\ \A c \in DOMAIN content : content[c].views_count = grants[c]
    /\ (resp.op = "access" /\ resp.code = 200) =>
          \E s \in sessions : s.session_token = resp.token /\ s.view_count >= 1

\* C21: an item's views_count is never negative and no upload, access, stream
\* or terminate step lowers it.
C21_ViewsCountMonotone ==
    [][\A c \in DOMAIN content :
        /\ content[c].views_count >= 0
        /\ content'[c].views_count >= content[c].views_count]_vars

\* an item that was viewed more than once, by two devices, and then terminated
C21_Witness ==
    \E c \in DOMAIN content :
        /\ content[c].views_count >= 2
        /\ Cardinality(Admitted(c)) = 2
        /\ terminations[c] >= 1

C24_StreamFailureCodes ==
    resp.op = "stream" =>
        /\ resp.detail = "Invalid or expired session" => resp.code = 401
        /\ resp.detail = "Content not found" => resp.code = 404
        /\ resp.detail \in {ContentIs("expired"), ContentIs("viewed"), ContentIs("terminated")} => resp.code = 410

\* C25: an upload is either answered 400 and creates no content row, no PIN
\* row and no file, or it creates an item whose PIN is four digits and whose
\* access_mode is time_based or one_time: an upload with a malformed PIN, an
\* invalid content type or another access mode is rejected.
C25_UploadValidation ==
    [][resp'.op = "upload" =>
        IF resp'.code = 200
        THEN /\ Len(content') = Len(content) + 1
             /\ content'[Len(content')].access_mode \in AccessModes
             /\ \E pin \in UploadPins : ValidPin(pin) /\ verify_pin(pin, pins'[Len(pins')].pin_hash)
        ELSE /\ resp'.code = 400
             /\ content' = content
             /\ pins' = pins
             /\ files' = files]_vars

\* C26: every stored item has max_devices >= 1.
C26_MaxDevicesPositive ==
    \A c \in DOMAIN content : content[c].max_devices >= 1

\* the PIN rows of an item
PinsOf(c) == {k \in 1..Len(pins) : pins[k].content_id = c}

\* C27: a successful upload leaves one new content row with status active,
\* current_devices 0 and views_count 0, and one PIN row for it that is active
\* with failed_attempts 0; and in every state each content item has exactly
\* one PIN row and each PIN row refers to an existing content item.
C27_OnePinPerItem ==
    /\ \A c \in DOMAIN content : Cardinality(PinsOf(c)) = 1
    /\ \A k \in 1..Len(pins) : pins[k].content_id \in DOMAIN content
    /\ (resp.op = "upload" /\ resp.code = 200) =>
          /\ resp.cid = Len(content)
          /\ content[resp.cid].status = "active"
          /\ content[resp.cid].current_devices = 0
          /\ content[resp.cid].views_count = 0
          /\ \A k \in PinsOf(resp.cid) : pins[k].is_active /\ pins[k].failed_attempts = 0 /\ pins[k].locked_until = NoTime

\* two items are stored, the first terminated, and the second was just uploaded
C27_Witness ==
    /\ resp.op = "upload" /\ resp.code = 200
    /\ Len(content) = 2
    /\ terminations[1] >= 1

\* the item of PIN row k can be opened by a new device without a biometric
\* check: the credential is in use and not locked, the item is active, not
\* yet viewed if one_time, not expired, not biometric-gated, and has a free
\* device slot
Reachable(k) ==
    LET row == content[pins[k].content_id] IN
    /\ pins[k].is_active
    /\ ~is_locked(pins[k])
    /\ row.status = "active"
    /\ ~AlreadyViewed(row)
    /\ ~Expired(row, now)
    /\ ~row.require_biometric
    /\ row.current_devices < row.max_devices

\* C28: whenever an access request is answered, every item that was uploaded
\* with the PIN the request presented and that is active, unexpired, unlocked,
\* not biometric-gated and has a free device slot is the item the request is
\* granted: the response is 200 and carries that item's content_id, also when
\* another active item was uploaded with the same PIN.
C28_ReachableByPin ==
    [][(resp' # resp /\ resp'.op = "access") =>
          \A k \in 1..Len(pins) :
              (verify_pin(resp'.pin, pins[k].pin_hash) /\ Reachable(k)) =>
                  (resp'.code = 200 /\ resp'.cid = pins[k].content_id)]_vars

\* C29: in every state the database shows, an item's current_devices is the
\* number of distinct device fingerprints that hold an active session of the
\* item, whatever access, stream and terminate requests were served.
C29_CounterMatchesSessions ==
    \A c \in DOMAIN content : content[c].current_devices = Cardinality(Admitted(c))

\* two devices were admitted, one of them came back, and the item was then
\* terminated
C29_Witness ==
    \E c \in DOMAIN content :
        /\ content[c].status = "terminated"
        /\ content[c].current_devices = 2
        /\ \E s \in sessions : s.content_id = c /\ s.view_count >= 2

\* terminate_content has committed for the item: its PIN row is out of use
TerminationCommitted(c) == \A k \in PinsOf(c) : ~pins[k].is_active

\* C30: when terminate_content and access_content for one item run
\* concurrently, the status terminate_content committed stays terminated: no
\* access request that had read the item before writes another status over
\* it, active or not; and no access request that starts after the termination
\* committed gets past the PIN scan, so none is granted.
C30_TerminateWins ==
    [][/\ \A c \in DOMAIN content :
             content[c].status = "terminated" => content'[c].status = "terminated"
       /\ \A w \in Workers :
             (reqs[w] = Idle /\ reqs'[w] # Idle /\ reqs'[w].op = "access") =>
                 ~TerminationCommitted(reqs'[w].cid)]_vars

\* the 410 details of the two lazy transitions, with the status each commits
LazyStatus(detail) ==
    CASE detail = "Content expired" -> "expired"
      [] detail = "Content already viewed (one-time view)" -> "viewed"
      [] OTHER -> "active"

\* C31: an access request that is refused leaves all sessions and every
\* item's status, current_devices and views_count as they were (404 for a PIN
\* no credential in use matches, 423 for a locked credential, 410 for a status
\* that is already not active, 403 for the device limit), except for the two
\* lazy transitions, which set the status of the item to expired or viewed
\* and change nothing else.
C31_RefusedAccessFrame ==
    [][(resp'.op = "access" /\ resp'.code # 200) =>
          /\ sessions' = sessions
          /\ \/ content' = content
             \/ /\ resp' # resp
                /\ LazyStatus(resp'.detail) # "active"
                /\ content[resp'.cid].status = "active"
                /\ content' = [content EXCEPT ![resp'.cid].status = LazyStatus(resp'.detail)]
          /\ resp'.code \in {404, 423, 403} => content' = content
          /\ (resp'.code = 410 /\ LazyStatus(resp'.detail) = "active") => content' = content]_vars

\* a second device was refused for the device limit after the first was
\* admitted
C31_Witness ==
    /\ resp.op = "access" /\ resp.code = 403 /\ resp.detail = "Device limit reached"
    /\ sessions # {}
    /\ content[resp.cid].views_count >= 1

\* C32: a stream request that is answered 200 raises the view_count of the
\* session whose token it presented, a session of the item streamed, by 1 and
\* changes nothing else: every item keeps its status, views_count and
\* current_devices, the PIN rows and all other sessions stay as they were, and
\* no grant is counted.
C32_StreamFrame ==
    [][\A w \in Workers :
        LET r == reqs[w] IN
        (r.op = "stream" /\ reqs'[w] = Idle /\ resp'.code = 200) =>
            /\ content' = content
            /\ pins' = pins
            /\ grants' = grants
            /\ \E s \in sessions :
                  /\ s.session_token = r.token /\ s.content_id = r.cid
                  /\ sessions' = (sessions \ {s}) \cup {[s EXCEPT !.view_count = @ + 1]}]_vars

\* a one_time item was streamed while the other item had a session too
C32_Witness ==
    /\ resp.op = "stream" /\ resp.code = 200
    /\ content[resp.cid].access_mode = "one_time"
    /\ \E s \in sessions : s.content_id # resp.cid

\* the columns of an item that carry its policy
Policy(row) == <<row.access_mode, row.max_devices, row.expires_at, row.auto_terminate, row.require_biometric>>

\* C33: no request changes the access_mode, max_devices, expires_at,
\* auto_terminate or require_biometric of an item that exists, and the item
\* keeps its id; and an upload sets expires_at, to the upload time plus the
\* duration, exactly when access_mode is time_based and a duration other than
\* zero was supplied, so that a one_time item never has an expiry.
C33_PolicyFixed ==
    [][/\ \A c \in DOMAIN content : c \in DOMAIN content' /\ Policy(content'[c]) = Policy(content[c])
       /\ (Len(content') > Len(content)) =>
             LET row == content'[Len(content')]
                 d == resp'.duration_minutes IN
             /\ resp'.op = "upload" /\ resp'.code = 200 /\ resp'.cid = Len(content')
             /\ (row.expires_at # NoTime) <=> (row.access_mode = "time_based" /\ d # NoTime /\ d # 0)
             /\ row.expires_at # NoTime => row.expires_at = now + d
             /\ row.access_mode = "one_time" => row.expires_at = NoTime]_vars

\* an item uploaded with an expiry was opened and then terminated
C33_Witness ==
    \E c \in DOMAIN content :
        /\ content[c].expires_at # NoTime
        /\ content[c].views_count >= 1
        /\ content[c].status = "terminated"
====
